---- MODULE Spec2Model ----
(***************************************************************************)
(* Model of backend/monitor/monitors.go: the etcd lease-backed monitor     *)
(* service (EtcdService.RefreshMonitor, getMonitor, watchMon) together     *)
(* with the client-visible behaviour of the etcd store it talks to         *)
(* (linearizable Get/Put, leases that delete their keys on expiry,         *)
(* per-key ordered watch streams).                                         *)
(***************************************************************************)
EXTENDS Integers, Sequences, FiniteSets, TLC

\* ---------------------------------------------------------------- bounds
\* Number of RefreshMonitor calls the host application makes.
NumCalls == 2

Calls == 1..NumCalls
\* Each call grants at most one lease; one more id is there for a lease
\* that was granted before this service instance was constructed.
LeaseIDs == 1..(NumCalls + 1)
NoLease == 0

\* Inputs of RefreshMonitor.
Names == {"entity1", "entity2"}
TTLs == {5, 10}
\* The entity and event are passed through opaquely; every call passes its
\* own snapshot, so that a snapshot identifies the call it came from.
Entities == <<"e1", "e2", "e3", "e4", "e5">>
Events == <<"ev1", "ev2", "ev3", "ev4", "ev5">>
Snapshots(c) == { <<Entities[c], Events[c]>> }

\* ---------------------------------------------------------------- errors
Nil == "nil"
ErrUnavailable == "etcdserver: unavailable"
ErrLeaseNotFound == "etcdserver: requested lease not found"
ErrCanceled == "context canceled"
ErrSyntax == "strconv.ParseInt: invalid syntax"
ErrHandler == "failure handler error"
StoreErrors == {ErrUnavailable, ErrLeaseNotFound, ErrCanceled}

\* ---------------------------------------------------------------- keys
monitorPathPrefix == "monitors"
\* monitorKeyBuilder.Build(name): "<prefix>/<name>", kept as a pair.
Build(name) == <<monitorPathPrefix, name>>
Keys == { Build(n) : n \in Names }

\* ------------------------------------------------- decimal conversions
Digits == <<"0", "1", "2", "3", "4", "5", "6", "7", "8", "9">>
IsDigit(ch) == \E d \in 1..10 : Digits[d] = ch
DigitVal(ch) == (CHOOSE d \in 1..10 : Digits[d] = ch) - 1

RECURSIVE FormatUint(_)
FormatUint(n) ==
    IF n < 10 THEN <<Digits[n + 1]>>
    ELSE Append(FormatUint(n \div 10), Digits[(n % 10) + 1])

\* fmt.Sprintf("%d", n)
Sprintf_d(n) == IF n < 0 THEN <<"-">> \o FormatUint(0 - n) ELSE FormatUint(n)

RECURSIVE ParseUint(_, _)
\* Accumulates the digits of s onto acc; ok is FALSE on a non-digit.
ParseUint(s, acc) ==
    IF s = <<>> THEN [ok |-> TRUE, val |-> acc]
    ELSE IF ~IsDigit(Head(s)) THEN [ok |-> FALSE, val |-> 0]
    ELSE ParseUint(Tail(s), acc * 10 + DigitVal(Head(s)))

\* strconv.ParseInt(s, 10, 64): optional sign, then at least one digit.
ParseInt(s) ==
    LET neg  == s # <<>> /\ Head(s) = "-"
        sgn  == s # <<>> /\ Head(s) \in {"-", "+"}
        body == IF sgn THEN Tail(s) ELSE s
        u    == ParseUint(body, 0)
    IN  IF body = <<>> \/ ~u.ok THEN [ok |-> FALSE, val |-> 0]
        ELSE [ok |-> TRUE, val |-> IF neg THEN 0 - u.val ELSE u.val]

\* ---------------------------------------------------------------- state
VARIABLES
    store,      \* etcd keyspace: key -> NoKV or [value, lease]
    leases,     \* etcd leases: id -> [state, ttl, deleted]; deleted records
                \* that the lease's expiry removed a key
    call,       \* RefreshMonitor invocations: program counter, arguments, locals
    ctxDone,    \* whether the context passed to a call has been cancelled
    watcher,    \* the watch and goroutine started by a call (watchMon)
    hf,         \* HandleFailure invocations made by each watcher, in order
    he          \* HandleError invocations made by each watcher, in order

vars == <<store, leases, call, ctxDone, watcher, hf, he>>

NoKV == [value |-> <<>>, lease |-> -1]
NoMon == [key |-> <<>>, leaseID |-> -1, ttl |-> -1]

FreeLease == [state |-> "free", ttl |-> 0, deleted |-> FALSE]

IdleCall ==
    [pc |-> "idle", name |-> "", ttl |-> 0, entity |-> "", event |-> "",
     kv |-> NoKV, mon |-> NoMon, lease |-> NoLease, ret |-> Nil, rpcs |-> <<>>]

NoWatcher ==
    [task |-> "none", open |-> FALSE, key |-> <<>>, stream |-> <<>>,
     entity |-> "", event |-> "", shutdowns |-> 0]

Init ==
    /\ store = [k \in Keys |-> NoKV]
    /\ leases = [l \in LeaseIDs |-> FreeLease]
    /\ call = [c \in Calls |-> IdleCall]
    /\ ctxDone = [c \in Calls |-> FALSE]
    /\ watcher = [c \in Calls |-> NoWatcher]
    /\ hf = [w \in Calls |-> <<>>]
    /\ he = [w \in Calls |-> <<>>]

\* ------------------------------------------------- etcd store behaviour
\* A watch response is a sequence of events; the server may batch an event
\* into the response still pending for a watcher.
Push(stream, ev, batch) ==
    IF batch /\ stream # <<>>
    THEN [stream EXCEPT ![Len(stream)] = Append(@, ev)]
    ELSE Append(stream, <<ev>>)

\* Deliver ev to every open watch on a key of ks.  A watch stays open after
\* its goroutine returned: only cancelling its context closes it.
Emit(ws, ks, ev, batch) ==
    [w \in Calls |->
        IF ws[w].open /\ ws[w].key \in ks
        THEN [ws[w] EXCEPT !.stream = Push(@, ev, batch)]
        ELSE ws[w]]

\* Number of leases granted so far; the next grant returns this plus one.
Granted == Cardinality({l \in LeaseIDs : leases[l].state # "free"})

\* A lease runs out: the store deletes the key attached to it and notifies
\* the watches on that key.
LeaseExpire(l) ==
    /\ leases[l].state = "live"
    /\ leases' = [leases EXCEPT
                    ![l].state = "expired",
                    ![l].deleted = \E k \in Keys : store[k] # NoKV /\ store[k].lease = l]
    /\ store' = [k \in Keys |-> IF store[k] # NoKV /\ store[k].lease = l
                                THEN NoKV ELSE store[k]]
    /\ \E batch \in BOOLEAN :
         watcher' = Emit(watcher,
                         {k \in Keys : store[k] # NoKV /\ store[k].lease = l},
                         [type |-> "DELETE", lease |-> l], batch)
    /\ UNCHANGED <<call, ctxDone, hf, he>>

\* ------------------------------------------------------- RefreshMonitor
\* getMonitor without the len(response.Kvs) > 0 test: an absent key is parsed.
getMonitor_NoLenCheck(kv, key) ==
    LET p == ParseInt(kv.value)
    IN  IF ~p.ok THEN [mon |-> NoMon, err |-> ErrSyntax]
        ELSE [mon |-> [key |-> key, leaseID |-> kv.lease, ttl |-> p.val],
              err |-> Nil]

\* getMonitor treating a value that does not parse like an absent key.
getMonitor_ParseErrorAsAbsent(kv, key) ==
    IF kv # NoKV /\ ParseInt(kv.value).ok
    THEN [mon |-> [key |-> key, leaseID |-> kv.lease,
                   ttl |-> ParseInt(kv.value).val],
          err |-> Nil]
    ELSE [mon |-> NoMon, err |-> Nil]

\* getMonitor's result for the key-value pair the Get returned (111-132).
getMonitor(kv, key) ==
    IF kv # NoKV
    THEN LET p == ParseInt(kv.value)
         IN  IF ~p.ok THEN [mon |-> NoMon, err |-> ErrSyntax]
             ELSE [mon |-> [key |-> key, leaseID |-> kv.lease, ttl |-> p.val],
                   err |-> Nil]
    ELSE [mon |-> NoMon, err |-> Nil]

\* Line 71 without the renewal: every call recreates the lease.
ShouldKeepAlive_Never(mon, ttl) == FALSE

\* Line 71 without the ttl comparison: any existing monitor is renewed.
ShouldKeepAlive_AnyTTL(mon, ttl) == mon # NoMon

\* Line 71: renew the existing lease instead of creating a new one.
ShouldKeepAlive(mon, ttl) == mon # NoMon /\ mon.ttl = ttl

\* Outcomes of an RPC issued under call c's context.
RpcFailures(c) == IF ctxDone[c] THEN {ErrCanceled} ELSE {ErrUnavailable}

Rpc(op, err) == [op |-> op, err |-> err]

\* Calls are interchangeable, so they are started in index order.
CanStart(c) == call[c].pc = "idle" /\ (IF c = 1 THEN TRUE ELSE call[c - 1].pc # "idle")

\* Entry of RefreshMonitor up to the branch after getMonitor (lines 62-75).
RefreshMonitor_Get(c, name, ttl, snap) ==
    /\ CanStart(c)
    /\ LET key  == Build(name)
           args == [call[c] EXCEPT !.name = name, !.ttl = ttl,
                                   !.entity = snap[1], !.event = snap[2]]
       IN  \/ \E e \in RpcFailures(c) :
                call' = [call EXCEPT ![c] =
                           [args EXCEPT !.pc = "done", !.ret = e,
                                        !.rpcs = <<Rpc("Get", e)>>]]
           \/ /\ ~ctxDone[c]
              /\ LET r == getMonitor(store[key], key)
                 IN  call' = [call EXCEPT ![c] =
                        IF r.err # Nil
                        THEN [args EXCEPT !.pc = "done", !.ret = r.err,
                                          !.kv = store[key],
                                          !.rpcs = <<Rpc("Get", Nil)>>]
                        ELSE [args EXCEPT
                                !.pc = IF ShouldKeepAlive(r.mon, ttl)
                                       THEN "keepalive" ELSE "grant",
                                !.kv = store[key],
                                !.mon = r.mon,
                                !.rpcs = <<Rpc("Get", Nil)>>]]
    /\ UNCHANGED <<store, leases, ctxDone, watcher, hf, he>>

\* Line 73 falling back to the create path when the keep-alive fails.
AfterKeepAlive_Fallback(kaerr) == IF kaerr # Nil THEN "grant" ELSE "done"

\* Line 73 going on to start a watcher after the keep-alive.
AfterKeepAlive_StartsWatcher(kaerr) == "watch"

\* What RefreshMonitor does with the keep-alive's error (line 73).
AfterKeepAlive(kaerr) == "done"

\* Lines 72-73: KeepAliveOnce on the lease id read from the store.
RefreshMonitor_KeepAlive(c) ==
    /\ call[c].pc = "keepalive"
    /\ \E e \in (IF ctxDone[c] THEN {ErrCanceled}
                 ELSE IF call[c].mon.leaseID \in LeaseIDs
                         /\ leases[call[c].mon.leaseID].state = "live"
                      THEN {Nil, ErrUnavailable}
                      ELSE {ErrLeaseNotFound, ErrUnavailable}) :
         call' = [call EXCEPT ![c].pc = AfterKeepAlive(e),
                              ![c].ret = e,
                              ![c].rpcs = Append(@, Rpc("KeepAliveOnce", e))]
    /\ UNCHANGED <<store, leases, ctxDone, watcher, hf, he>>

\* Lines 78-87: Grant a lease of ttl seconds.
RefreshMonitor_Grant(c) ==
    /\ call[c].pc = "grant"
    /\ \/ /\ \E e \in RpcFailures(c) :
               call' = [call EXCEPT ![c].pc = "done", ![c].ret = e,
                                    ![c].rpcs = Append(@, Rpc("Grant", e))]
          /\ UNCHANGED leases
       \/ /\ ~ctxDone[c]
          /\ LET id == Granted + 1
             IN  /\ leases' = [leases EXCEPT ![id] =
                                 [state |-> "live", ttl |-> call[c].ttl,
                                  deleted |-> FALSE]]
                 /\ call' = [call EXCEPT
                      ![c].pc = "put",
                      ![c].lease = id,
                      ![c].mon = [key |-> Build(call[c].name), leaseID |-> id,
                                  ttl |-> call[c].ttl],
                      ![c].rpcs = Append(@, Rpc("Grant", Nil))]
    /\ UNCHANGED <<store, ctxDone, watcher, hf, he>>

\* The Put writing the lease id instead of the TTL as the value.
PutValue_LeaseID(mon) == Sprintf_d(mon.leaseID)

\* The value written under the key (line 89).
PutValue(mon) == Sprintf_d(mon.ttl)

\* Lines 90-92 revoking the granted lease when the Put fails.
LeasesAfterPutError_Revoke(ls, id) == [ls EXCEPT ![id].state = "expired"]

\* The leases after a failed Put (lines 90-92): the error is returned and
\* the granted lease id is left alone.
LeasesAfterPutError(ls, id) == ls

\* Lines 89-92: Put the key bound to the granted lease.
RefreshMonitor_Put(c) ==
    /\ call[c].pc = "put"
    /\ \/ /\ \E e \in (IF ctxDone[c] THEN {ErrCanceled}
                       ELSE IF leases[call[c].lease].state = "live"
                            THEN {ErrUnavailable}
                            ELSE {ErrLeaseNotFound}) :
               call' = [call EXCEPT ![c].pc = "done", ![c].ret = e,
                                    ![c].rpcs = Append(@, Rpc("Put", e))]
          /\ leases' = LeasesAfterPutError(leases, call[c].lease)
          /\ UNCHANGED <<store, watcher>>
       \/ /\ ~ctxDone[c]
          /\ leases[call[c].lease].state = "live"
          /\ LET key == call[c].mon.key
             IN  /\ store' = [store EXCEPT ![key] =
                                [value |-> PutValue(call[c].mon),
                                 lease |-> call[c].lease]]
                 /\ \E batch \in BOOLEAN :
                      watcher' = Emit(watcher, {key},
                                      [type |-> "PUT", lease |-> call[c].lease],
                                      batch)
          /\ call' = [call EXCEPT ![c].pc = "watch",
                                  ![c].rpcs = Append(@, Rpc("Put", Nil))]
          /\ UNCHANGED leases
    /\ UNCHANGED <<ctxDone, hf, he>>

\* Lines 94-108 and 137-139: build the callbacks, open the watch, start the
\* goroutine, return nil.  A watch opened on a cancelled context is closed
\* from the start.
RefreshMonitor_Watch(c) ==
    /\ call[c].pc = "watch"
    /\ watcher' = [watcher EXCEPT ![c] =
         [task |-> "Active", open |-> ~ctxDone[c], key |-> call[c].mon.key,
          stream |-> <<>>, entity |-> call[c].entity, event |-> call[c].event,
          shutdowns |-> 0]]
    /\ call' = [call EXCEPT ![c].pc = "done", ![c].ret = Nil,
                            ![c].rpcs = Append(@, Rpc("Watch", Nil))]
    /\ UNCHANGED <<store, leases, ctxDone, hf, he>>

\* The caller cancels the context it passed to call c (or its deadline
\* passes).  The watch opened under that context is cancelled with it.
Cancel(c) ==
    /\ call[c].pc # "idle"
    /\ ~ctxDone[c]
    /\ ctxDone' = [ctxDone EXCEPT ![c] = TRUE]
    /\ watcher' = [watcher EXCEPT ![c].open = FALSE]
    /\ UNCHANGED <<store, leases, call, hf, he>>

\* ------------------------------------------------------------- watchMon
RECURSIVE ProcessEvents_IgnorePut(_)
\* The inner loop without the PUT branch.
ProcessEvents_IgnorePut(evs) ==
    IF evs = <<>> THEN "continue"
    ELSE IF Head(evs).type = "DELETE" THEN "failure"
    ELSE ProcessEvents_IgnorePut(Tail(evs))

\* The inner loop letting the last event of a response decide.
ProcessEvents_LastDecides(evs) ==
    IF evs = <<>> THEN "continue"
    ELSE IF evs[Len(evs)].type = "DELETE" THEN "failure"
    ELSE "shutdown"

\* The inner loop calling the failure handler on a PUT as well.
ProcessEvents_PutFails(evs) == IF evs = <<>> THEN "continue" ELSE "failure"

RECURSIVE ProcessEvents(_)
\* The inner loop of the goroutine over one response's events (141-152).
ProcessEvents(evs) ==
    IF evs = <<>> THEN "continue"
    ELSE IF Head(evs).type = "DELETE" THEN "failure"
    ELSE IF Head(evs).type = "PUT" THEN "shutdown"
    ELSE ProcessEvents(Tail(evs))

\* The goroutine without the return after failureHandler().
TaskAfter_NoReturnOnDelete(outcome) ==
    CASE outcome = "shutdown" -> "Superseded"
      [] OTHER                -> "Active"

\* The task state the goroutine is in after an outcome of ProcessEvents.
TaskAfter(outcome) ==
    CASE outcome = "failure"  -> "Failed"
      [] outcome = "shutdown" -> "Superseded"
      [] OTHER                -> "Active"

\* failureFunc taking the arguments of the latest call for the key instead
\* of the ones it closed over.
failureFuncArgs_Latest(w) ==
    LET same == {c \in Calls : call[c].pc # "idle" /\ call[c].name = call[w].name}
        last == CHOOSE c \in same : \A d \in same : d <= c
    IN  <<call[last].entity, call[last].event>>

\* The arguments failureFunc passes to HandleFailure (lines 94-96).
failureFuncArgs(w) == <<watcher[w].entity, watcher[w].event>>

\* failureFunc dropping the handler's error.
failureFuncErrors_Dropped(err) == <<>>

\* The HandleError invocations failureFunc makes for a handler result.
failureFuncErrors(err) == IF err # Nil THEN <<err>> ELSE <<>>

\* The event that decided a response.
Decider(evs) == Head(evs)

\* The goroutine receives the next response from the watch channel and
\* runs the loop body on it (lines 140-153).
WatcherRecv(w) ==
    /\ watcher[w].task = "Active"
    /\ watcher[w].stream # <<>>
    /\ LET resp    == Head(watcher[w].stream)
           outcome == ProcessEvents(resp)
       IN  /\ watcher' = [watcher EXCEPT
                ![w].stream = Tail(@),
                ![w].task = TaskAfter(outcome),
                ![w].shutdowns = IF outcome = "shutdown" THEN @ + 1 ELSE @]
           /\ IF outcome = "failure"
              THEN \E err \in {Nil, ErrHandler} :
                     /\ hf' = [hf EXCEPT ![w] =
                                 Append(@, [entity |-> failureFuncArgs(w)[1],
                                            event |-> failureFuncArgs(w)[2],
                                            lease |-> Decider(resp).lease,
                                            ret |-> err])]
                     /\ he' = [he EXCEPT ![w] = @ \o failureFuncErrors(err)]
              ELSE UNCHANGED <<hf, he>>
    /\ UNCHANGED <<store, leases, call, ctxDone>>

\* The goroutine treating the end of the range loop as a failure.
AfterRangeLoop_Failure == "failure"

\* What the goroutine does when the range loop ends (lines 153-154): it
\* falls off the end of the function.
AfterRangeLoop == "return"

\* The watch channel was closed (context cancelled): the range loop ends.
WatcherClosed(w) ==
    /\ watcher[w].task = "Active"
    /\ ~watcher[w].open
    /\ watcher' = [watcher EXCEPT ![w].task = "Closed"]
    /\ IF AfterRangeLoop = "failure"
       THEN /\ hf' = [hf EXCEPT ![w] =
                        Append(@, [entity |-> failureFuncArgs(w)[1],
                                   event |-> failureFuncArgs(w)[2],
                                   lease |-> NoLease, ret |-> Nil])]
            /\ UNCHANGED he
       ELSE UNCHANGED <<hf, he>>
    /\ UNCHANGED <<store, leases, call, ctxDone>>

\* ------------------------------------------------------------ behaviour
Next ==
    \/ \E c \in Calls, n \in Names, t \in TTLs : \E s \in Snapshots(c) :
         RefreshMonitor_Get(c, n, t, s)
    \/ \E c \in Calls : RefreshMonitor_KeepAlive(c)
    \/ \E c \in Calls : RefreshMonitor_Grant(c)
    \/ \E c \in Calls : RefreshMonitor_Put(c)
    \/ \E c \in Calls : RefreshMonitor_Watch(c)
    \/ \E c \in Calls : Cancel(c)
    \/ \E l \in LeaseIDs : LeaseExpire(l)
    \/ \E w \in Calls : WatcherRecv(w)
    \/ \E w \in Calls : WatcherClosed(w)

Spec == Init /\ [][Next]_vars

\* Values under a monitor key that strconv.ParseInt rejects.
Malformed == { <<>>, <<"x">>, <<"1", "0", "s">>, <<"-">> }

\* The service is constructed against a store in which one monitor key
\* already holds a value that is not an integer (written outside this
\* service), bound to no lease.
InitMalformed ==
    /\ \E k \in Keys, v \in Malformed :
         store = [j \in Keys |-> IF j = k THEN [value |-> v, lease |-> NoLease]
                                 ELSE NoKV]
    /\ leases = [l \in LeaseIDs |-> FreeLease]
    /\ call = [c \in Calls |-> IdleCall]
    /\ ctxDone = [c \in Calls |-> FALSE]
    /\ watcher = [c \in Calls |-> NoWatcher]
    /\ hf = [w \in Calls |-> <<>>]
    /\ he = [w \in Calls |-> <<>>]

SpecMalformed == InitMalformed /\ [][Next]_vars

\* The service is constructed against a store that already holds a monitor
\* an earlier service instance created with RefreshMonitor: the key holds
\* the decimal TTL and is bound to the live lease 1.  The earlier
\* instance's watcher is gone with its process.
InitExisting ==
    /\ \E n \in Names, t \in TTLs :
         /\ store = [j \in Keys |-> IF j = Build(n)
                                     THEN [value |-> Sprintf_d(t), lease |-> 1]
                                     ELSE NoKV]
         /\ leases = [l \in LeaseIDs |->
                        IF l = 1 THEN [state |-> "live", ttl |-> t, deleted |-> FALSE]
                        ELSE FreeLease]
    /\ call = [c \in Calls |-> IdleCall]
    /\ ctxDone = [c \in Calls |-> FALSE]
    /\ watcher = [c \in Calls |-> NoWatcher]
    /\ hf = [w \in Calls |-> <<>>]
    /\ he = [w \in Calls |-> <<>>]

SpecExisting == InitExisting /\ [][Next]_vars

\* ------------------------------------------------------------- helpers
\* The operations call c has issued, in order.
Ops(c) == [i \in DOMAIN call[c].rpcs |-> call[c].rpcs[i].op]

\* How many times call c has issued operation op.
Issued(c, op) == Cardinality({i \in DOMAIN call[c].rpcs : call[c].rpcs[i].op = op})

\* How many times watcher w has reported the expiry of lease l.
Reports(w, l) == Cardinality({i \in DOMAIN hf[w] : hf[w][i].lease = l})

\* Watcher w is subscribed and has not terminated.
IsActive(w) == watcher[w].task = "Active" /\ watcher[w].open

\* ----------------------------------------------------------------- C1
\* C1: a single deletion of a monitor key (the expiry of the lease the key
\* was bound to) is reported to HandleFailure at most once: no watcher
\* reports it twice and no two watchers both report it.
C1_NoDuplicateFailure ==
    \A l \in LeaseIDs :
        /\ \A w \in Calls : Reports(w, l) <= 1
        /\ \A w1, w2 \in Calls :
             (Reports(w1, l) > 0 /\ Reports(w2, l) > 0) => w1 = w2

\* ----------------------------------------------------------------- C2
\* C2: in every reachable state every monitor key has at most one watcher
\* task that is Active (subscribed and not yet terminated).
C2_AtMostOneActive ==
    \A k \in Keys :
        Cardinality({w \in Calls : IsActive(w) /\ watcher[w].key = k}) <= 1

\* ------------------------------------------------------ more helpers
\* Every operation call c has issued so far succeeded.
AllOk(c) == \A i \in DOMAIN call[c].rpcs : call[c].rpcs[i].err = Nil

\* Call c's Get succeeded.
GetOk(c) == call[c].rpcs # <<>> /\ call[c].rpcs[1] = Rpc("Get", Nil)

\* Call c is taking the step in which its Put succeeds.
PutSucceeds(c) == call[c].pc = "put" /\ call'[c].pc = "watch"

\* The key-value pair a successful Put of call c must leave in the store.
Written(c) == [value |-> Sprintf_d(call[c].ttl), lease |-> call[c].lease]

\* The goroutine of watcher w takes a response off its stream in this step.
Consumed(w) == Len(watcher'[w].stream) < Len(watcher[w].stream)

\* The first event of the response at the head of w's stream.
NextEvent(w) == Head(Head(watcher[w].stream))

\* ----------------------------------------------------------------- C3
\* Call c2 read the record call c1 created and asks for the same TTL.
C3_Renews(c1, c2) ==
    /\ c1 # c2
    /\ call[c2].pc = "done"
    /\ GetOk(c2)
    /\ call[c1].lease # NoLease
    /\ call[c2].kv # NoKV
    /\ call[c2].kv.lease = call[c1].lease
    /\ call[c2].name = call[c1].name
    /\ call[c2].ttl = call[c1].ttl

\* C3: idempotent renewal.  When a call reads the record an earlier call
\* with the same name and TTL created, the two calls together make exactly
\* one grant and one put; the second issues only a Get and one
\* KeepAliveOnce on the lease id it read, starts no watcher and returns the
\* keep-alive's result, which is "lease not found" only if the lease expired.
C3_IdempotentRenewal ==
    \A c1, c2 \in Calls :
        C3_Renews(c1, c2) =>
            /\ call[c2].rpcs = <<Rpc("Get", Nil), Rpc("KeepAliveOnce", call[c2].ret)>>
            /\ call[c2].mon.leaseID = call[c1].lease
            /\ Issued(c1, "Grant") + Issued(c2, "Grant") = 1
            /\ Issued(c1, "Put") + Issued(c2, "Put") = 1
            /\ watcher[c2].task = "none"
            /\ call[c2].ret \in {Nil} \cup StoreErrors
            /\ (call[c2].ret = ErrLeaseNotFound =>
                    leases[call[c1].lease].state = "expired")

\* A renewal that succeeded while the creating call had returned success.
C3_Witness ==
    \E c1, c2 \in Calls :
        /\ C3_Renews(c1, c2)
        /\ c1 < c2
        /\ call[c1].pc = "done" /\ call[c1].ret = Nil
        /\ call[c2].ret = Nil
        /\ leases[call[c1].lease].state = "live"

\* ----------------------------------------------------------------- C4
\* Call c read an existing record whose stored TTL differs from its own.
C4_Changed(c) ==
    /\ GetOk(c)
    /\ call[c].kv # NoKV
    /\ ParseInt(call[c].kv.value).ok
    /\ ParseInt(call[c].kv.value).val # call[c].ttl

C4_State ==
    \A c \in Calls :
        C4_Changed(c) =>
            /\ call[c].pc # "keepalive"
            /\ Issued(c, "KeepAliveOnce") = 0
            /\ (call[c].lease # NoLease =>
                    /\ call[c].lease # call[c].kv.lease
                    /\ leases[call[c].lease].ttl = call[c].ttl)
            /\ (call[c].pc = "done" /\ AllOk(c) =>
                    /\ Ops(c) = <<"Get", "Grant", "Put", "Watch">>
                    /\ call[c].ret = Nil)

C4_Step ==
    \A c \in Calls :
        (C4_Changed(c) /\ PutSucceeds(c)) =>
            store'[Build(call[c].name)] = Written(c)

\* C4: a TTL change forces recreation.  A call that reads an existing record
\* whose stored TTL differs from the requested one never issues a keep-alive;
\* when its RPCs succeed it grants a new lease of the requested TTL, and
\* right after its Put the key holds the decimal string of the requested TTL
\* and is bound to the new lease.
C4_TTLChangeRecreates == []C4_State /\ [][C4_Step]_vars

\* A TTL-changing call returned success and the key still holds what it wrote.
C4_Witness ==
    \E c \in Calls :
        /\ C4_Changed(c)
        /\ call[c].pc = "done" /\ call[c].ret = Nil
        /\ call[c].ttl = 10
        /\ store[Build(call[c].name)] = [value |-> <<"1", "0">>, lease |-> call[c].lease]

\* ----------------------------------------------------------------- C5
C5_State ==
    \A w \in Calls :
        /\ Len(hf[w]) <= 1
        /\ (watcher[w].task = "Failed" =>
                Len(hf[w]) = 1 /\ watcher[w].shutdowns = 0)

C5_Step ==
    \A w \in Calls :
        /\ (watcher[w].task = "Active" /\ Consumed(w) /\ NextEvent(w).type = "DELETE") =>
                /\ watcher'[w].task = "Failed"
                /\ Len(hf'[w]) = Len(hf[w]) + 1
        /\ (watcher[w].task = "Failed" =>
                /\ watcher'[w].task = "Failed"
                /\ ~Consumed(w)
                /\ hf'[w] = hf[w] /\ he'[w] = he[w]
                /\ watcher'[w].shutdowns = watcher[w].shutdowns)

\* C5: expiry triggers failure exactly once.  A watcher task that receives
\* a DELETE event invokes the failure handler once and terminates (Failed);
\* a Failed task takes no further event off its stream and fires no further
\* callback.
C5_ExpiryFailsOnce == []C5_State /\ [][C5_Step]_vars

\* A Failed task with an event delivered on its key after it terminated.
C5_Witness ==
    \E w \in Calls :
        /\ watcher[w].task = "Failed"
        /\ Len(hf[w]) = 1
        /\ watcher[w].stream # <<>>

\* ----------------------------------------------------------------- C6
C6_State ==
    \A w \in Calls :
        watcher[w].task = "Superseded" =>
            /\ watcher[w].shutdowns = 1
            /\ hf[w] = <<>>
            /\ he[w] = <<>>

C6_Step ==
    \A w \in Calls :
        /\ (watcher[w].task = "Active" /\ Consumed(w) /\ NextEvent(w).type = "PUT") =>
                /\ watcher'[w].task = "Superseded"
                /\ watcher'[w].shutdowns = watcher[w].shutdowns + 1
                /\ hf'[w] = hf[w]
        /\ (watcher[w].task = "Superseded" =>
                /\ watcher'[w].task = "Superseded"
                /\ ~Consumed(w)
                /\ hf'[w] = hf[w]
                /\ watcher'[w].shutdowns = watcher[w].shutdowns)

\* C6: supersession suppresses failure.  A watcher task whose first event
\* is a PUT invokes the shutdown callback and terminates (Superseded); it
\* never invokes the failure handler, also when a DELETE follows in its
\* stream.
C6_SupersessionSuppressesFailure == []C6_State /\ [][C6_Step]_vars

\* A Superseded task with a DELETE behind the PUT that stopped it.
C6_Witness ==
    \E w \in Calls :
        /\ watcher[w].task = "Superseded"
        /\ \E i \in DOMAIN watcher[w].stream :
             \E j \in DOMAIN watcher[w].stream[i] :
                watcher[w].stream[i][j].type = "DELETE"

\* ----------------------------------------------------------------- C7
\* C7: HandleFailure receives the entity and event of the call that created
\* the lease and started the reporting watcher; that call granted and put
\* and issued no keep-alive, and the entity and event of a call that only
\* renewed are never delivered.
C7_SnapshotAtCreation ==
    \A w \in Calls : \A i \in DOMAIN hf[w] :
        /\ hf[w][i].entity = call[w].entity
        /\ hf[w][i].event = call[w].event
        /\ Ops(w) = <<"Get", "Grant", "Put", "Watch">>
        /\ AllOk(w)
        /\ \A c \in Calls :
             Issued(c, "KeepAliveOnce") > 0 =>
                /\ hf[w][i].entity # call[c].entity
                /\ hf[w][i].event # call[c].event

\* The lease a call created expired after a later call renewed it, and the
\* creating call's watcher reported it.
C7_Witness ==
    \E w, c \in Calls :
        /\ w < c
        /\ call[c].rpcs = <<Rpc("Get", Nil), Rpc("KeepAliveOnce", Nil)>>
        /\ call[c].kv.lease = call[w].lease
        /\ Len(hf[w]) = 1
        /\ hf[w][1].lease = call[w].lease
        /\ hf[w][1].entity = Entities[w]

\* ----------------------------------------------------------------- C8
\* Call c's Get succeeded and found no key.
C8_Absent(c) == GetOk(c) /\ call[c].kv = NoKV

C8_State ==
    \A c \in Calls :
        C8_Absent(c) =>
            /\ ~(call[c].pc = "done" /\ Len(call[c].rpcs) = 1)
            /\ call[c].ret \notin {ErrSyntax}
            /\ Issued(c, "KeepAliveOnce") = 0
            /\ Issued(c, "Grant") <= 1
            /\ Issued(c, "Put") <= 1
            /\ (call[c].pc = "done" /\ AllOk(c) =>
                    /\ Ops(c) = <<"Get", "Grant", "Put", "Watch">>
                    /\ call[c].ret = Nil
                    /\ watcher[c].task # "none"
                    /\ watcher[c].key = Build(call[c].name))

C8_Step ==
    \A c \in Calls :
        (C8_Absent(c) /\ PutSucceeds(c)) =>
            /\ store'[Build(call[c].name)] = Written(c)
            /\ leases[call[c].lease].ttl = call[c].ttl

\* C8: missing key on first read.  When the key is absent the read step
\* yields no monitor and no error; the call does not return at the read
\* step, and when its RPCs succeed it makes one grant and one put of the
\* decimal string of the requested TTL bound to the granted lease, starts
\* one watcher and returns success.
C8_MissingKeyCreates == []C8_State /\ [][C8_Step]_vars

\* The end-to-end scenario's first half: key absent, call succeeded, key
\* holds "10" bound to the granted lease, watcher running.
C8_Witness ==
    \E c \in Calls :
        /\ C8_Absent(c)
        /\ call[c].pc = "done" /\ call[c].ret = Nil
        /\ call[c].ttl = 10
        /\ store[Build(call[c].name)] = [value |-> <<"1", "0">>, lease |-> call[c].lease]
        /\ IsActive(c)

\* ----------------------------------------------------------------- C9
\* C9: handler-error isolation.  The error handler is invoked once with
\* the failure handler's error when it returns one and not at all when it
\* returns none; the task ends Failed either way, and no RefreshMonitor
\* call returns the handler's error.
C9_HandlerErrorIsolation ==
    /\ \A w \in Calls :
        /\ (hf[w] = <<>> => he[w] = <<>>)
        /\ (hf[w] # <<>> =>
                /\ watcher[w].task = "Failed"
                /\ (hf[w][1].ret # Nil => he[w] = <<hf[w][1].ret>>)
                /\ (hf[w][1].ret = Nil => he[w] = <<>>))
    /\ \A c \in Calls : call[c].ret # ErrHandler

\* A failure handler returned an error.
C9_Witness ==
    \E w \in Calls :
        /\ Len(hf[w]) = 1
        /\ hf[w][1].ret = ErrHandler
        /\ he[w] = <<ErrHandler>>
        /\ watcher[w].task = "Failed"

\* ---------------------------------------------------------------- C10
\* C10: store RPC failures abort the call at the failing step.  A call
\* issues each of Get, Grant, Put and KeepAliveOnce at most once; an
\* operation that failed is the last one the call issued, the call has
\* returned that operation's error and it started no watcher; the first
\* operation is the Get, and a Put or a watch only follows a Grant.
C10_FailuresAbort ==
    \A c \in Calls :
        /\ \A op \in {"Get", "Grant", "Put", "KeepAliveOnce", "Watch"} : Issued(c, op) <= 1
        /\ (call[c].rpcs # <<>> => call[c].rpcs[1].op = "Get")
        /\ (Issued(c, "Put") > 0 => Issued(c, "Grant") > 0)
        /\ (Issued(c, "Watch") > 0 => Issued(c, "Put") > 0)
        /\ (watcher[c].task # "none" => Issued(c, "Watch") > 0)
        /\ \A i \in DOMAIN call[c].rpcs :
             call[c].rpcs[i].err # Nil =>
                /\ i = Len(call[c].rpcs)
                /\ call[c].pc = "done"
                /\ call[c].ret = call[c].rpcs[i].err
                /\ call[c].ret \in StoreErrors
                /\ watcher[c].task = "none"

\* A keep-alive failed because the lease expired after the read, and the
\* call returned that error.
C10_Witness ==
    \E c \in Calls :
        /\ call[c].rpcs = <<Rpc("Get", Nil), Rpc("KeepAliveOnce", ErrLeaseNotFound)>>
        /\ call[c].pc = "done"
        /\ call[c].ret = ErrLeaseNotFound

\* ---------------------------------------------------------------- C11
\* Call c is taking the step in which its Put fails.
PutFails(c) == call[c].pc = "put" /\ call'[c].pc = "done"

\* Call c returned because its Put failed.
PutFailed(c) ==
    /\ call[c].pc = "done"
    /\ Len(call[c].rpcs) = 3
    /\ call[c].rpcs[3].op = "Put"
    /\ call[c].rpcs[3].err # Nil

C11_State ==
    \A c \in Calls :
        PutFailed(c) =>
            /\ call[c].ret = call[c].rpcs[3].err
            /\ Ops(c) = <<"Get", "Grant", "Put">>
            /\ watcher[c].task = "none"
            /\ call[c].lease \in LeaseIDs
            /\ leases[call[c].lease].state \in {"live", "expired"}
            /\ ~leases[call[c].lease].deleted
            /\ \A k \in Keys : store[k] # NoKV => store[k].lease # call[c].lease

C11_Step ==
    /\ \A c \in Calls :
         PutFails(c) =>
            /\ store' = store
            /\ leases' = leases
            /\ watcher' = watcher
    /\ \A l \in LeaseIDs :
         (leases[l].state = "live" /\ leases'[l].state # "live") =>
            /\ leases'[l].state = "expired"
            /\ call' = call

\* C11: lease leakage on a failed Put.  When the Put of a call fails the
\* call returns the Put's error and starts no watcher; the step leaves the
\* key's value and lease binding and all leases as they were (no revoke),
\* the key is never bound to the granted lease, and a live lease stops
\* being live only by expiring in the store, never by a step of a call.
C11_LeaseLeakOnFailedPut == []C11_State /\ [][C11_Step]_vars

\* A TTL-changing call whose Put failed: the key still holds what the call
\* read and the granted lease is live and unused.
C11_Witness ==
    \E c \in Calls :
        /\ PutFailed(c)
        /\ C4_Changed(c)
        /\ call[c].ret = ErrUnavailable
        /\ store[Build(call[c].name)] = call[c].kv
        /\ leases[call[c].lease].state = "live"

\* ---------------------------------------------------------------- C12
\* The call with record r read a key whose value is not an integer.
MalformedRead(r) ==
    /\ r.rpcs # <<>>
    /\ r.rpcs[1] = Rpc("Get", Nil)
    /\ r.kv # NoKV
    /\ ~ParseInt(r.kv.value).ok

C12_State ==
    \A c \in Calls :
        MalformedRead(call[c]) =>
            /\ call[c].pc = "done"
            /\ call[c].ret = ErrSyntax
            /\ call[c].rpcs = <<Rpc("Get", Nil)>>
            /\ call[c].lease = NoLease
            /\ watcher[c].task = "none"
            /\ store[Build(call[c].name)] = call[c].kv

C12_Step ==
    /\ \A c \in Calls :
         (call[c].pc = "idle" /\ MalformedRead(call'[c])) =>
            /\ store' = store
            /\ leases' = leases
            /\ watcher' = watcher
    /\ \A k \in Keys :
         (store[k] # NoKV /\ ~ParseInt(store[k].value).ok) => store'[k] = store[k]

\* C12: malformed stored state aborts the refresh.  A call whose Get finds
\* a value that does not parse as an integer returns the parse error from
\* the read step, having issued the Get only: no keep-alive, no grant, no
\* put, no watcher; its step changes nothing in the store and the
\* malformed value is never overwritten.
C12_MalformedAborts == []C12_State /\ [][C12_Step]_vars

\* A call read "10s" and returned the parse error while another call had
\* run on the store.
C12_Witness ==
    \E c \in Calls :
        /\ MalformedRead(call[c])
        /\ call[c].kv.value = <<"1", "0", "s">>
        /\ call[c].ret = ErrSyntax
        /\ \E d \in Calls : d # c /\ call[d].pc = "done"

\* ---------------------------------------------------------------- C13
\* Call c has started a watcher task.
Started(c) == watcher[c].task # "none"

\* The Put of call c succeeded.
PutOk(c) == \E i \in DOMAIN call[c].rpcs : call[c].rpcs[i] = Rpc("Put", Nil)

C13_State ==
    /\ \A c \in Calls :
         /\ Issued(c, "Watch") <= 1
         /\ (Started(c) =>
                /\ Ops(c) = <<"Get", "Grant", "Put", "Watch">>
                /\ AllOk(c))
         /\ ((call[c].pc = "done" /\ PutOk(c)) => Started(c))
         /\ (Issued(c, "KeepAliveOnce") > 0 => ~Started(c))
         /\ (~AllOk(c) => ~Started(c))
    /\ Cardinality({c \in Calls : Started(c)})
         = Cardinality({c \in Calls : call[c].pc = "done" /\ PutOk(c)})

C13_Step ==
    \A c \in Calls :
        (~Started(c) /\ watcher'[c].task # "none") =>
            /\ call[c].pc = "watch"
            /\ PutOk(c)
            /\ watcher'[c].task = "Active"

\* C13: a watcher task is started exactly once per successful lease
\* creation and never otherwise.  The calls that have started a watcher are
\* the returned calls whose Put succeeded; a call that issued a keep-alive
\* or had an operation fail starts none, and the watcher is started in a
\* step after the Put has completed.
C13_WatcherPerCreation == []C13_State /\ [][C13_Step]_vars

\* One call created the lease and started a watcher; a later call renewed
\* it successfully and started none.
C13_Witness ==
    \E c1, c2 \in Calls :
        /\ Started(c1)
        /\ call[c2].pc = "done"
        /\ call[c2].rpcs = <<Rpc("Get", Nil), Rpc("KeepAliveOnce", Nil)>>
        /\ call[c2].kv.lease = call[c1].lease
        /\ ~Started(c2)

\* ---------------------------------------------------------------- C14
\* How many callbacks watcher w has fired.
Fired(w) == Len(hf[w]) + watcher[w].shutdowns

C14_State ==
    \A w \in Calls :
        /\ Fired(w) <= 1
        /\ (watcher[w].task = "Failed" => Len(hf[w]) = 1)
        /\ (watcher[w].task = "Superseded" => watcher[w].shutdowns = 1)
        /\ (watcher[w].task \in {"none", "Active", "Closed"} => Fired(w) = 0)

\* Watcher w starts, or leaves Active on the first event of its stream.
C14_Move(w) ==
    \/ watcher[w].task = "none" /\ watcher'[w].task = "Active"
    \/ /\ watcher[w].task = "Active" /\ watcher'[w].task = "Failed"
       /\ Consumed(w) /\ NextEvent(w).type = "DELETE"
    \/ /\ watcher[w].task = "Active" /\ watcher'[w].task = "Superseded"
       /\ Consumed(w) /\ NextEvent(w).type = "PUT"

\* Watcher w ends because its watch channel was closed.
C14_Close(w) ==
    /\ watcher[w].task = "Active" /\ watcher'[w].task = "Closed"
    /\ ~watcher[w].open
    /\ ~Consumed(w)
    /\ hf'[w] = hf[w]
    /\ watcher'[w].shutdowns = watcher[w].shutdowns

\* Responses leave the stream from the front, one per step, and the first
\* one taken ends the task.
C14_InOrder(w) ==
    Consumed(w) =>
        /\ watcher[w].task = "Active"
        /\ watcher'[w].task \in {"Failed", "Superseded"}
        /\ watcher'[w].stream = Tail(watcher[w].stream)

C14_OriginalStep ==
    \A w \in Calls :
        /\ (watcher'[w].task # watcher[w].task => C14_Move(w))
        /\ C14_InOrder(w)

\* C14 as stated: a watcher task moves only Active -> Failed (on the first
\* DELETE) or Active -> Superseded (on the first PUT), events are taken in
\* emission order, the end states are absorbing, and a task fires at most
\* one callback over its life and never both.
C14_Original == []C14_State /\ [][C14_OriginalStep]_vars

C14_Step ==
    \A w \in Calls :
        /\ (watcher'[w].task # watcher[w].task => (C14_Move(w) \/ C14_Close(w)))
        /\ C14_InOrder(w)

\* C14 (amended): a watcher task moves only Active -> Failed (on the first
\* DELETE), Active -> Superseded (on the first PUT), or ends without a
\* callback when its watch channel is closed by cancellation; events are
\* taken in emission order so that the first event decides, the three end
\* states are absorbing, and a task fires at most one callback over its
\* life and never both.
C14_StateMachine == []C14_State /\ [][C14_Step]_vars

\* One task was superseded by a PUT with a DELETE left behind it, another
\* failed on a DELETE.
C14_Witness ==
    \E w1, w2 \in Calls :
        /\ watcher[w1].task = "Superseded"
        /\ watcher[w1].stream # <<>>
        /\ watcher[w2].task = "Failed"

\* ---------------------------------------------------------------- C15
\* The event most recently added to a stream.
LastEvent(st) == st[Len(st)][Len(st[Len(st)])]

\* An event is added to the stream of watcher w in this step.
Delivered(w) == ~Consumed(w) /\ watcher'[w].stream # watcher[w].stream

\* No key is bound to lease l.
Unbound(l) == \A k \in Keys : store[k] = NoKV \/ store[k].lease # l

C15_State ==
    \A w \in Calls : \A i \in DOMAIN hf[w] :
        /\ hf[w][i].lease \in LeaseIDs
        /\ leases[hf[w][i].lease].state = "expired"
        /\ leases[hf[w][i].lease].deleted

C15_Step ==
    /\ \A w \in Calls :
         /\ (hf'[w] # hf[w] =>
                /\ watcher[w].task = "Active"
                /\ Consumed(w)
                /\ NextEvent(w).type = "DELETE"
                /\ Len(hf'[w]) = Len(hf[w]) + 1)
         /\ ((Delivered(w) /\ LastEvent(watcher'[w].stream).type = "DELETE") =>
                /\ store[watcher[w].key] # NoKV
                /\ store'[watcher[w].key] = NoKV
                /\ LastEvent(watcher'[w].stream).lease = store[watcher[w].key].lease)
    /\ \A l \in LeaseIDs :
         (leases[l].state = "live" /\ leases'[l].state = "expired" /\ Unbound(l)) =>
            /\ store' = store
            /\ watcher' = watcher
            /\ hf' = hf
    /\ (ctxDone' # ctxDone => hf' = hf)

\* C15: HandleFailure is invoked only as a reaction to a DELETE event on
\* the monitor key.  Every invocation is made by an Active task taking a
\* DELETE off its stream; a DELETE is emitted only when the key is removed
\* by the expiry of the lease it is bound to; the expiry of a lease no key
\* is bound to (superseded and left un-revoked) changes no key and no
\* stream; a PUT and the cancellation of a context invoke nothing.
C15_FailureOnlyOnDelete == []C15_State /\ [][C15_Step]_vars

\* A TTL change left the old lease un-revoked; it expired while the key was
\* bound to the new lease, the old watcher was stopped by the PUT and
\* HandleFailure was never invoked.
C15_Witness ==
    \E c, w \in Calls :
        /\ C4_Changed(c)
        /\ call[c].kv.lease = call[w].lease
        /\ watcher[w].task = "Superseded"
        /\ leases[call[w].lease].state = "expired"
        /\ ~leases[call[w].lease].deleted
        /\ store[Build(call[c].name)] # NoKV
        /\ store[Build(call[c].name)].lease = call[c].lease
        /\ \A v \in Calls : hf[v] = <<>>

\* ---------------------------------------------------------------- C16
\* Watcher w fires no callback in this step.
Silent(w) ==
    /\ hf'[w] = hf[w]
    /\ he'[w] = he[w]
    /\ watcher'[w].shutdowns = watcher[w].shutdowns

C16_OriginalStep ==
    \A w \in Calls :
        (ctxDone[w] /\ watcher[w].task = "Active") =>
            /\ Silent(w)
            /\ watcher'[w].task \in {"Active", "Closed"}

\* C16 as stated: once the context governing a watcher's subscription is
\* cancelled while the task is Active, the task ends without invoking the
\* failure callback or the shutdown callback.
C16_Original == [][C16_OriginalStep]_vars

C16_State ==
    \A w \in Calls :
        /\ (ctxDone[w] => ~watcher[w].open)
        /\ (watcher[w].task = "Closed" =>
                /\ ctxDone[w]
                /\ Fired(w) = 0
                /\ he[w] = <<>>)

C16_Step ==
    \A w \in Calls :
        /\ ((~ctxDone[w] /\ ctxDone'[w]) =>
                /\ ~watcher'[w].open
                /\ watcher'[w].stream = watcher[w].stream
                /\ Silent(w))
        /\ ((watcher[w].task = "Active" /\ watcher'[w].task = "Closed") =>
                /\ ctxDone[w]
                /\ Silent(w))
        /\ ((ctxDone[w] /\ watcher[w].task = "Active" /\ watcher[w].stream = <<>>) =>
                /\ Silent(w)
                /\ watcher'[w].stream = <<>>
                /\ watcher'[w].task \in {"Active", "Closed"})
        /\ (watcher[w].task = "Closed" => (watcher'[w].task = "Closed" /\ Silent(w)))

\* C16 (amended): cancellation fires no callback.  Cancelling the context
\* closes the watch; no event is added to the stream afterwards; a task
\* that is Active with no event pending in its stream ends without
\* invoking the failure or the shutdown callback, and the exit through the
\* closed channel itself invokes neither.  A response already in the stream
\* when the context is cancelled may still be received and fire its
\* callback.
C16_CancelFiresNoCallback == []C16_State /\ [][C16_Step]_vars

\* A task ended by cancellation; the key it watched was later removed by
\* the expiry of its lease and nothing was reported.
C16_Witness ==
    \E w \in Calls :
        /\ watcher[w].task = "Closed"
        /\ leases[call[w].lease].deleted
        /\ hf[w] = <<>>
        /\ watcher[w].shutdowns = 0

\* ---------------------------------------------------------------- C17
\* C17: subscription release.  A watcher task that has terminated (Failed
\* after a DELETE, Superseded after a PUT, or ended by cancellation) holds
\* no open watch subscription, and a task whose context is cancelled has
\* its subscription released.
C17_SubscriptionReleased ==
    \A w \in Calls :
        /\ (watcher[w].task \in {"Failed", "Superseded", "Closed"} => ~watcher[w].open)
        /\ (ctxDone[w] => ~watcher[w].open)

\* ---------------------------------------------------------------- C18
\* The record the read step reconstructs from key k as it is stored now.
Stored(k) == getMonitor(store[k], k)

\* C18: stored-TTL invariant.  Whenever a monitor key exists in the store
\* it is bound to a live lease, its value is the decimal string of that
\* lease's TTL, and the record the read step reconstructs from it refers
\* to that lease and has ttl equal to the lease's duration.
C18_StoredTTL ==
    \A k \in Keys :
        store[k] # NoKV =>
            /\ store[k].lease \in LeaseIDs
            /\ leases[store[k].lease].state = "live"
            /\ store[k].value = Sprintf_d(leases[store[k].lease].ttl)
            /\ Stored(k).err = Nil
            /\ Stored(k).mon # NoMon
            /\ Stored(k).mon.leaseID = store[k].lease
            /\ Stored(k).mon.ttl = leases[store[k].lease].ttl

\* Two calls with different TTLs have both written the key, and it now
\* holds the second TTL bound to the second lease.
C18_Witness ==
    \E c, d \in Calls :
        /\ c # d
        /\ call[c].name = call[d].name
        /\ call[c].ttl # call[d].ttl
        /\ call[c].pc = "done" /\ call[c].ret = Nil /\ Issued(c, "Put") = 1
        /\ call[d].pc = "done" /\ call[d].ret = Nil /\ Issued(d, "Put") = 1
        /\ store[Build(call[d].name)] = Written(d)
        /\ call[d].lease # call[c].lease
        /\ Stored(Build(call[d].name)).mon.ttl = call[d].ttl

\* ---------------------------------------------------------------- C19
\* A DELETE for the expiry of lease l is waiting in the stream of watcher w.
PendingDelete(w, l) ==
    \E i \in DOMAIN watcher[w].stream :
        \E j \in DOMAIN watcher[w].stream[i] :
            /\ watcher[w].stream[i][j].type = "DELETE"
            /\ watcher[w].stream[i][j].lease = l

\* No call is in flight and no context has been cancelled.
Quiescent ==
    /\ \A c \in Calls : call[c].pc \in {"idle", "done"}
    /\ \A c \in Calls : ~ctxDone[c]

\* C19: every expiry is detected.  With no context cancelled and no call
\* in flight, every deletion of a monitor key by lease expiry has been
\* reported to HandleFailure or has its DELETE event waiting in the stream
\* of an active watcher; otherwise no later step can report it, since a
\* watch only delivers events that happen after it was opened.
C19_ExpiryDetected ==
    Quiescent =>
        \A l \in LeaseIDs :
            leases[l].deleted =>
                \E w \in Calls :
                    \/ Reports(w, l) > 0
                    \/ IsActive(w) /\ PendingDelete(w, l)

\* ---------------------------------------------------------------- C20
\* Call c returns success through the keep-alive path in this step.
KeepAliveSucceeds(c) ==
    /\ call[c].pc = "keepalive"
    /\ call'[c].pc = "done"
    /\ call'[c].ret = Nil

\* C20: renewal hits the bound lease.  Whenever a call returns success
\* through the keep-alive path, the lease it kept alive (the leaseID of the
\* record its Get reconstructed) is the lease the key is bound to at the
\* moment of the keep-alive.
C20_RenewalHitsBoundLease ==
    [][\A c \in Calls :
          KeepAliveSucceeds(c) =>
              /\ store[Build(call[c].name)] # NoKV
              /\ store[Build(call[c].name)].lease = call[c].mon.leaseID]_vars
====
